---- MODULE Spec2Model ----
(***************************************************************************)
(* Model of scripts/sample_json_generator.py: one run of main() as a state *)
(* machine (parse start date -> generate -> write -> validate -> exit),    *)
(* with SessionGenerator, the serializer and SchemaValidator as operators. *)
(*                                                                         *)
(* Strings that the program compares or cuts (timestamps, output paths)    *)
(* are sequences of code points, so that Python's str comparison is the    *)
(* lexicographic order on them.  Session fields no property below reads    *)
(* (ip, country, language, sentiment, flags, category, questions, summary, *)
(* message statistics other than source_url, transcript roles and texts)   *)
(* are left out of the record; the draws that feed them are not modelled.  *)
(***************************************************************************)
EXTENDS Integers, Sequences, FiniteSets, TLC

VARIABLES pc, args, env, sessions, files, log, io, steps, exit_code, raised,
          run, tape, first_files

vars == <<pc, args, env, sessions, files, log, io, steps, exit_code, raised,
          run, tape, first_files>>

\* ------------------------------------------------------------- bounds --
MaxNum == 2
MaxDays == 1

\* -------------------------------------------------- strings as code points
\* code point of a decimal digit, and of the other characters of a timestamp
Ch(d) == 48 + d
Code == [minus |-> 45, colon |-> 58, plus |-> 43, T |-> 84, Z |-> 90]

\* Python's str "<": lexicographic on code points, a proper prefix is smaller.
RECURSIVE StrLess(_, _)
StrLess(a, b) ==
    IF b = <<>> THEN FALSE
    ELSE IF a = <<>> THEN TRUE
    ELSE IF Head(a) < Head(b) THEN TRUE
    ELSE IF Head(a) > Head(b) THEN FALSE
    ELSE StrLess(Tail(a), Tail(b))

StrLeq(a, b) == a = b \/ StrLess(a, b)

EndsWith(s, suffix) ==
    /\ Len(s) >= Len(suffix)
    /\ SubSeq(s, Len(s) - Len(suffix) + 1, Len(s)) = suffix

\* ------------------------------------------------- datetime (proleptic) --
IsLeap(y) == (y % 4 = 0 /\ y % 100 # 0) \/ y % 400 = 0

DaysInMonth(y, m) ==
    IF m = 2 THEN (IF IsLeap(y) THEN 29 ELSE 28)
    ELSE IF m \in {4, 6, 9, 11} THEN 30 ELSE 31

\* days since 1970-01-01 of a civil date
DaysFromCivil(y, m, d) ==
    LET yy  == IF m <= 2 THEN y - 1 ELSE y
        era == yy \div 400
        yoe == yy - era * 400
        mp  == IF m > 2 THEN m - 3 ELSE m + 9
        doy == (153 * mp + 2) \div 5 + d - 1
        doe == yoe * 365 + yoe \div 4 - yoe \div 100 + doy
    IN era * 146097 + doe - 719468

CivilFromDays(z0) ==
    LET z   == z0 + 719468
        era == z \div 146097
        doe == z - era * 146097
        yoe == (doe - doe \div 1460 + doe \div 36524 - doe \div 146096) \div 365
        doy == doe - (365 * yoe + yoe \div 4 - yoe \div 100)
        mp  == (5 * doy + 2) \div 153
        d   == doy - (153 * mp + 2) \div 5 + 1
        m   == IF mp < 10 THEN mp + 3 ELSE mp - 9
        y   == yoe + era * 400 + (IF m <= 2 THEN 1 ELSE 0)
    IN [year |-> y, month |-> m, day |-> d]

\* datetime.strptime(s, "%Y-%m-%d"): the argument is the triple of numbers the
\* string spells; a month or day out of range is a ValueError.
strptime_ok(s) ==
    /\ s[1] \in 1..9999
    /\ s[2] \in 1..12
    /\ s[3] \in 1..DaysInMonth(s[1], s[2])

\* the aware datetime at midnight UTC: [ord, sec]
strptime(s) == [ord |-> DaysFromCivil(s[1], s[2], s[3]), sec |-> 0]

\* base + timedelta(days, seconds), normalised; datetime.max is 9999-12-31
AddOffset(base, days, seconds) ==
    LET t == base.sec + seconds
    IN [ord |-> base.ord + days + t \div 86400, sec |-> t % 86400]

DatetimeInRange(dt) ==
    /\ dt.ord >= DaysFromCivil(1, 1, 1)
    /\ dt.ord <= DaysFromCivil(9999, 12, 31)

Digits2(n) == <<Ch(n \div 10), Ch(n % 10)>>
Digits4(n) == <<Ch(n \div 1000), Ch((n \div 100) % 10),
                Ch((n \div 10) % 10), Ch(n % 10)>>

\* datetime.isoformat() of an aware UTC datetime without microseconds
isoformat(dt) ==
    LET c == CivilFromDays(dt.ord)
    IN Digits4(c.year) \o <<Code.minus>> \o Digits2(c.month) \o <<Code.minus>>
       \o Digits2(c.day) \o <<Code.T>> \o Digits2(dt.sec \div 3600)
       \o <<Code.colon>> \o Digits2((dt.sec \div 60) % 60)
       \o <<Code.colon>> \o Digits2(dt.sec % 60)
       \o <<Code.plus, Ch(0), Ch(0), Code.colon, Ch(0), Ch(0)>>

\* str.replace("+00:00", "Z"); "+" occurs in an isoformat string only in the
\* offset at its end
ReplaceOffset(s) ==
    IF EndsWith(s, <<Code.plus, Ch(0), Ch(0), Code.colon, Ch(0), Ch(0)>>)
    THEN SubSeq(s, 1, Len(s) - 6) \o <<Code.Z>>
    ELSE s

\* ------------------------------------------------------ SessionGenerator --
\* random.randint(a, b) raises ValueError on an empty range
randint_ok(a, b) == a <= b

\* generate_timestamp(base, days_span) with its two draws made explicit.
\* Result: [raised, value].
generate_timestamp(base, days_span, d) ==
    IF ~randint_ok(0, days_span)
    THEN [raised |-> "ValueError", value |-> <<>>]
    ELSE LET dt == AddOffset(base, d.day, d.sec)
         IN IF ~DatetimeInRange(dt)
            THEN [raised |-> "OverflowError", value |-> <<>>]
            ELSE [raised |-> "none", value |-> ReplaceOffset(isoformat(dt))]

\* generate_transcript: one TranscriptEntry per drawn timestamp
generate_transcript(base, days_span, tdraws) ==
    LET ts == [k \in 1..Len(tdraws) |->
                  generate_timestamp(base, days_span, tdraws[k])]
        bad == {k \in 1..Len(tdraws) : ts[k].raised # "none"}
    IN IF bad # {}
       THEN [raised |-> ts[CHOOSE k \in bad : \A j \in bad : k <= j].raised,
             value |-> <<>>]
       ELSE [raised |-> "none",
             value |-> [k \in 1..Len(tdraws) |-> [timestamp |-> ts[k].value]]]

\* the list random.choice draws the rating from; 4.5 is written in tenths
RatingChoices == <<10, 20, 30, 40, 45, 50>>

\* a rating drawn whatever include_rating says
draw_rating_unconditional(include_rating, d) ==
    IF d.p < 80 THEN <<RatingChoices[d.rating]>> ELSE <<>>

\* "include_rating and random.random() < 0.8"; p is random.random() in
\* hundredths.  None is <<>>, a value v is <<v>>.
draw_rating(include_rating, d) ==
    IF include_rating /\ d.p < 80 THEN <<RatingChoices[d.rating]>> ELSE <<>>

source_url(session_id) == <<"https://redacted.local/chat/", session_id>>

\* generate_session without the swap of an end_time drawn before start_time
generate_session_noswap(base_date, days_span, include_rating, d) ==
    LET t1 == generate_timestamp(base_date, days_span, d.start)
        t2 == generate_timestamp(base_date, days_span, d.end)
        tr == generate_transcript(base_date, days_span, d.transcript)
    IN IF t1.raised # "none" THEN [raised |-> t1.raised, value |-> <<>>]
       ELSE IF t2.raised # "none" THEN [raised |-> t2.raised, value |-> <<>>]
       ELSE IF tr.raised # "none" THEN [raised |-> tr.raised, value |-> <<>>]
       ELSE [raised |-> "none",
             value |-> [session_id |-> d.uuid,
                        start_time |-> t1.value,
                        end_time   |-> t2.value,
                        transcript |-> tr.value,
                        source_url |-> <<"https://redacted.local/chat/",
                                         d.uuid>>,
                        user_rating |-> draw_rating(include_rating, d)]]

\* generate_session(base_date, days_span, include_rating) for the draws d.
\* Result: [raised, value]; value is the Session.
generate_session(base_date, days_span, include_rating, d) ==
    LET t1 == generate_timestamp(base_date, days_span, d.start)
        t2 == generate_timestamp(base_date, days_span, d.end)
        swap == StrLess(t2.value, t1.value)
        tr == generate_transcript(base_date, days_span, d.transcript)
    IN IF t1.raised # "none" THEN [raised |-> t1.raised, value |-> <<>>]
       ELSE IF t2.raised # "none" THEN [raised |-> t2.raised, value |-> <<>>]
       ELSE IF tr.raised # "none" THEN [raised |-> tr.raised, value |-> <<>>]
       ELSE [raised |-> "none",
             value |-> [session_id |-> d.uuid,
                        start_time |-> IF swap THEN t2.value ELSE t1.value,
                        end_time   |-> IF swap THEN t1.value ELSE t2.value,
                        transcript |-> tr.value,
                        source_url |-> source_url(d.uuid),
                        user_rating |-> draw_rating(include_rating, d)]]

\* Session.model_dump(exclude_none=True, mode="json"): a mapping without the
\* keys whose value is None
model_dump(s) ==
    LET keys == {"session_id", "start_time", "end_time", "transcript",
                 "source_url"}
                \cup (IF s.user_rating = <<>> THEN {} ELSE {"user_rating"})
    IN [k \in keys |-> IF k = "user_rating" THEN s.user_rating[1] ELSE s[k]]


\* ------------------------------------------------------------ Serializer --
\* pathlib: paths are sequences of characters
GZ == <<".", "g", "z">>

LastIndexOf(s, c) ==
    LET idx == {k \in 1..Len(s) : s[k] = c}
    IN IF idx = {} THEN 0 ELSE CHOOSE k \in idx : \A j \in idx : j <= k

\* PurePath.name: the last component
PathName(p) == SubSeq(p, LastIndexOf(p, "/") + 1, Len(p))
PathParent(p) == SubSeq(p, 1, LastIndexOf(p, "/"))

\* PurePath.suffix: from the last dot of the name, unless that dot is the
\* first or the last character
PathSuffix(p) ==
    LET name == PathName(p)
        j == LastIndexOf(name, ".")
    IN IF 1 < j /\ j < Len(name) THEN SubSeq(name, j, Len(name)) ELSE <<>>

\* PurePath.with_suffix: the name with its suffix replaced (the output paths
\* explored all have a name, so its "empty name" error does not arise)
with_suffix(p, suffix) ==
    LET name == PathName(p)
        stem == SubSeq(name, 1, Len(name) - Len(PathSuffix(p)))
    IN PathParent(p) \o stem \o suffix

\* the extension replaced by ".gz" instead of extended
output_path_replaced(a) ==
    IF a.compressed /\ ~EndsWith(a.out, GZ)
    THEN with_suffix(a.out, GZ)
    ELSE a.out

\* "Adjust file extension for compression"
output_path(a) ==
    IF a.compressed /\ ~EndsWith(a.out, GZ)
    THEN with_suffix(a.out, PathSuffix(a.out) \o GZ)
    ELSE a.out

\* The text of the file is a sequence of tokens: a newline, or the text
\* json.dumps gives for one value (which holds no newline when compact).
NL == [kind |-> "nl", value |-> <<>>, style |-> <<>>]
json_dumps(obj, style) == [kind |-> "json", value |-> obj, style |-> style]

RECURSIVE Join(_, _)
Join(sep, xs) ==
    IF xs = <<>> THEN <<>>
    ELSE IF Len(xs) = 1 THEN <<xs[1]>>
    ELSE <<xs[1], sep>> \o Join(sep, Tail(xs))

\* "Prepare the output content"
output_content(a, ss) ==
    IF a.jsonl
    THEN Join(NL, [k \in 1..Len(ss) |-> json_dumps(ss[k], <<"compact">>)])
         \o <<NL>>
    ELSE IF a.pretty
         THEN <<json_dumps(ss, <<"indent", a.indent>>)>>
         ELSE <<json_dumps(ss, <<"compact">>)>>

\* "Write the file": the file that exists afterwards
written_file(a, ss) ==
    [path |-> output_path(a),
     encoding |-> IF a.compressed THEN "gzip" ELSE "plain",
     text |-> output_content(a, ss)]

\* ------------------------------------------------------- SchemaValidator --
IsUrl(schema) == Head(schema) \in {"http://", "https://"}

\* requests.RequestException and its subclasses
RequestExceptions == {"ConnectionError", "HTTPError", "Timeout",
                      "RequestsJSONDecodeError"}

\* fetch_schema that answers a missing local file with the empty schema
fetch_schema_missing_ok(path_or_url, e) ==
    IF IsUrl(path_or_url)
    THEN IF e.source \in RequestExceptions
         THEN [raised |-> "ValueError", schema |-> "", io |-> <<"http_get">>]
         ELSE [raised |-> "none", schema |-> e.doc, io |-> <<"http_get">>]
    ELSE IF e.source = "missing"
         THEN [raised |-> "none", schema |-> "permissive",
               io |-> <<"exists">>]
         ELSE IF e.source = "JSONDecodeError"
              THEN [raised |-> "JSONDecodeError", schema |-> "",
                    io |-> <<"exists", "open_schema">>]
              ELSE [raised |-> "none", schema |-> e.doc,
                    io |-> <<"exists", "open_schema">>]

\* fetch_schema(path_or_url) in the environment e (e.source: what reaching
\* the schema yields; e.doc: the schema document).
\* Result: [raised, schema, io].
fetch_schema(path_or_url, e) ==
    IF IsUrl(path_or_url)
    THEN IF e.source \in RequestExceptions
         THEN [raised |-> "ValueError", schema |-> "", io |-> <<"http_get">>]
         ELSE [raised |-> "none", schema |-> e.doc, io |-> <<"http_get">>]
    ELSE IF e.source = "missing"
         THEN [raised |-> "FileNotFoundError", schema |-> "",
               io |-> <<"exists">>]
         ELSE IF e.source = "JSONDecodeError"
              THEN [raised |-> "JSONDecodeError", schema |-> "",
                    io |-> <<"exists", "open_schema">>]
              ELSE [raised |-> "none", schema |-> e.doc,
                    io |-> <<"exists", "open_schema">>]

\* the violations the schema document finds in record k of the batch
Violates(schema, rec) ==
    \/ schema = "reject_items"
    \/ schema = "require_rating" /\ "user_rating" \notin DOMAIN rec

RECURSIVE ItemErrors(_, _, _)
ItemErrors(schema, data, k) ==
    IF k > Len(data) THEN <<>>
    ELSE (IF Violates(schema, data[k])
          THEN <<[path |-> <<k - 1>>, message |-> schema]>> ELSE <<>>)
         \o ItemErrors(schema, data, k + 1)

\* validate(data, schema): the messages, sorted by path ("$" is the root)
validate(data, schema) ==
    IF schema = "reject_root"
    THEN <<[path |-> <<>>, message |-> schema]>>
    ELSE ItemErrors(schema, data, 1)

\* -------------------------------------------------------------- main() --
None == <<>>
Some(v) == <<v>>

Entry(level, text, detail) ==
    [level |-> level, text |-> text, detail |-> detail]

\* a handler written "except BaseException"
HandlerCatchesBaseException(exc) == TRUE

\* a handler written "except OSError"
HandlerCatchesOSError(exc) == exc \in {"FileNotFoundError", "OSError"}

\* "except Exception": SystemExit derives from BaseException only
HandlerCatches(exc) == exc # "SystemExit"

\* range(args.num)
NumIterations(num) == IF num > 0 THEN num ELSE 0

\* the draws of the random module in one generate_session call
RandomPart(d) ==
    [start |-> d.start, end |-> d.end, p |-> d.p, rating |-> d.rating,
     transcript |-> d.transcript]

\* a draw the call does not make is pinned: random.choice is not called when
\* the rating is left out
Consumed(d, include_rating) ==
    (~include_rating \/ d.p >= 80) => d.rating = 1

\* the process ends: uncaught exceptions and sys.exit(1) give status 1
Terminate(code, exc) ==
    /\ pc' = "exit"
    /\ exit_code' = code
    /\ raised' = exc

\* "Parse start date" and "Initialize generator"
ParseStartDate ==
    /\ pc = "parse_args"
    /\ steps' = Append(steps, "parse_args")
    /\ IF strptime_ok(args.start_date)
       THEN /\ pc' = "generate"
            /\ log' = Append(log, Entry("info", "Generating", <<>>))
            /\ UNCHANGED <<exit_code, raised>>
       ELSE /\ log' = Append(log, Entry("error", "Invalid --start-date", <<>>))
            /\ Terminate(1, "SystemExit")
    /\ UNCHANGED <<args, env, sessions, files, io, run, tape, first_files>>

\* one iteration of "for i in range(args.num)"; D is the set of draws the
\* iteration may see.  A seeded random module repeats, in a second run, the
\* draws of the first; uuid.uuid4() reads the operating system's entropy.
GenerateStep(D) ==
    /\ pc = "generate"
    /\ Len(sessions) < NumIterations(args.num)
    /\ \E d \in D :
         /\ Consumed(d, ~args.no_rating)
         /\ (run = 2 /\ args.seed # None)
               => RandomPart(d) = tape[Len(sessions) + 1]
         /\ tape' = IF run = 1 THEN Append(tape, RandomPart(d)) ELSE tape
         /\ LET r == generate_session(strptime(args.start_date), args.days,
                                      ~args.no_rating, d)
            IN IF r.raised # "none"
               THEN /\ Terminate(1, r.raised)
                    /\ UNCHANGED sessions
               ELSE /\ sessions' = Append(sessions, model_dump(r.value))
                    /\ UNCHANGED <<pc, exit_code, raised>>
    /\ steps' = IF sessions = <<>> THEN Append(steps, "generate") ELSE steps
    /\ UNCHANGED <<args, env, files, log, io, run, first_files>>

\* "Write output" with the I/O error caught and logged instead of left to
\* end the run
WriteOutputKeepsGoing ==
    /\ pc = "generate"
    /\ Len(sessions) = NumIterations(args.num)
    /\ steps' = (IF sessions = <<>> THEN Append(steps, "generate") ELSE steps)
                \o <<"write">>
    /\ IF env.disk_ok
       THEN /\ io' = io \o <<"mkdir", "open_output">>
            /\ files' = {f \in files : f.path # output_path(args)}
                        \cup {written_file(args, sessions)}
            /\ log' = Append(log, Entry("info", "Writing", <<>>))
       ELSE /\ io' = io \o <<"mkdir">>
            /\ log' = log \o <<Entry("info", "Writing", <<>>),
                               Entry("error", "Could not write", <<>>)>>
            /\ UNCHANGED files
    /\ pc' = "validate"
    /\ UNCHANGED <<exit_code, raised>>
    /\ UNCHANGED <<args, env, sessions, run, tape, first_files>>

\* the loop is over: "Write output"
WriteOutput ==
    /\ pc = "generate"
    /\ Len(sessions) = NumIterations(args.num)
    /\ steps' = (IF sessions = <<>> THEN Append(steps, "generate") ELSE steps)
                \o <<"write">>
    /\ log' = Append(log, Entry("info", "Writing", <<>>))
    /\ IF env.disk_ok
       THEN /\ io' = io \o <<"mkdir", "open_output">>
            /\ files' = {f \in files : f.path # output_path(args)}
                        \cup {written_file(args, sessions)}
            /\ pc' = "validate"
            /\ UNCHANGED <<exit_code, raised>>
       ELSE /\ io' = io \o <<"mkdir">>
            /\ Terminate(1, "OSError")
            /\ UNCHANGED files
    /\ UNCHANGED <<args, env, sessions, run, tape, first_files>>

\* "--skip-validate": straight to "Done"
SkipValidate ==
    /\ pc = "validate"
    /\ args.skip_validate
    /\ log' = Append(log, Entry("info", "Done", <<>>))
    /\ Terminate(0, "none")
    /\ steps' = steps \o <<"skip", "exit">>
    /\ UNCHANGED <<args, env, sessions, files, io, run, tape, first_files>>

\* the try block of "Validate if requested".
\* Result: [exc, log, io]; exc is what leaves the try body ("none": nothing)
validation_try(a, ss, e) ==
    LET f == fetch_schema(a.schema, e)
        errors == validate(ss, f.schema)
    IN IF f.raised # "none"
       THEN [exc |-> f.raised, log |-> <<>>, io |-> f.io]
       ELSE IF errors # <<>>
            THEN [exc |-> "SystemExit",
                  log |-> <<Entry("error", "Schema validation failed", <<>>)>>
                          \o [k \in 1..Len(errors) |->
                                 Entry("error", "violation", <<errors[k]>>)],
                  io |-> f.io \o <<"validate">>]
            ELSE [exc |-> "none",
                  log |-> <<Entry("info", "Schema validation passed", <<>>)>>,
                  io |-> f.io \o <<"validate">>]

\* "Validate if requested" with its handler, then "Done"
ValidateOutput ==
    /\ pc = "validate"
    /\ ~args.skip_validate
    /\ LET t == validation_try(args, sessions, env)
           before == Append(log, Entry("info", "Validating", <<>>)) \o t.log
       IN /\ io' = io \o t.io
          /\ IF t.exc = "none"
             THEN /\ log' = Append(before, Entry("info", "Done", <<>>))
                  /\ Terminate(0, "none")
             ELSE IF HandlerCatches(t.exc)
                  THEN /\ log' = before
                                 \o <<Entry("warning", "Could not validate",
                                            <<t.exc>>),
                                      Entry("info", "Done", <<>>)>>
                       /\ Terminate(0, "none")
                  ELSE /\ log' = before
                       /\ Terminate(1, t.exc)
    /\ steps' = steps \o <<"validate", "exit">>
    /\ UNCHANGED <<args, env, sessions, files, run, tape, first_files>>

\* an independent second run of the program with the same arguments
SecondRun ==
    /\ pc = "exit"
    /\ run = 1
    /\ run' = 2
    /\ first_files' = files
    /\ files' = {}
    /\ pc' = "parse_args"
    /\ sessions' = <<>>
    /\ log' = <<>>
    /\ io' = <<>>
    /\ steps' = <<>>
    /\ exit_code' = -1
    /\ raised' = "none"
    /\ UNCHANGED <<args, env, tape>>


\* ------------------------------------------------- inputs and draw sets --
DEFAULT_SCHEMA_URL == <<"https://", "raw.githubusercontent.com/data-schema.json">>
LOCAL_SCHEMA == <<"./public/data-schema.json">>

P_data_json == <<"d", "a", "t", "a", ".", "j", "s", "o", "n">>
P_data == <<"o", ".", "d", "/", "d", "a", "t", "a">>
P_data_gz == <<"d", "a", "t", "a", ".", "g", "z">>
P_data_tar_json == <<"d", ".", "t", "a", "r", ".", "j", "s", "o", "n">>
OutPaths == {P_data_json, P_data, P_data_gz, P_data_tar_json}

StartDates == {<<2024, 1, 1>>, <<2024, 2, 28>>, <<9999, 12, 31>>}

UUIDs == {"u1", "u2"}

\* random.randint(0, 86_400): both ends and the middle
SecondDraws == {0, 43200, 86400}
\* random.randint(0, days_span); with an empty range the call raises before
\* the value is used
DayDraws(days) == IF days >= 0 THEN 0..days ELSE {0}
TsDraws(days) == [day : DayDraws(days), sec : SecondDraws]

\* random.randint(3, 8) entries, explored with one repeated timestamp draw
TranscriptDraws(T) == {[k \in 1..n |-> t] : n \in 3..8, t \in T}

Midnight == [day |-> 0, sec |-> 0]
DayLater == [day |-> 0, sec |-> 86400]

\* every draw of one generate_session call
GenDraws(days) ==
    [uuid : {"u1"}, start : TsDraws(days), end : TsDraws(days),
     p : {79, 80}, rating : 1..6, transcript : TranscriptDraws(TsDraws(days))]

\* the draws that decide the rating
RatingDraws ==
    [uuid : {"u1"}, start : {Midnight}, end : {Midnight},
     p : {79, 80}, rating : 1..6, transcript : {<<Midnight, Midnight, Midnight>>}]

\* the draws a whole run of the driver is explored with
FlowDraws ==
    {d \in [uuid : {"u1"}, start : {Midnight, DayLater},
            end : {Midnight, DayLater}, p : {79, 80}, rating : {1},
            transcript : TranscriptDraws({Midnight, DayLater})] :
        /\ d.end = d.start
        /\ d.transcript = <<d.start, d.start, d.start>>}

\* the draws two runs are compared on
RepeatDraws ==
    {d \in [uuid : UUIDs, start : {Midnight, DayLater},
            end : {Midnight}, p : {80}, rating : {1},
            transcript : {<<Midnight, Midnight, Midnight>>}] : TRUE}

BaseArgs ==
    [num |-> 1, out |-> P_data_json, seed |-> None,
     start_date |-> <<2024, 1, 1>>, days |-> 0, no_rating |-> FALSE,
     schema |-> DEFAULT_SCHEMA_URL, skip_validate |-> TRUE, indent |-> 2,
     compressed |-> FALSE, jsonl |-> FALSE, pretty |-> FALSE]

BaseEnv == [disk_ok |-> TRUE, source |-> "ok", doc |-> "permissive"]

SchemaDocs == {"permissive", "reject_items", "reject_root", "require_rating"}

\* a schema argument with what reaching it yields
SchemaCases ==
    {[schema |-> DEFAULT_SCHEMA_URL, source |-> x, doc |-> "permissive"] :
        x \in RequestExceptions}
    \cup {[schema |-> LOCAL_SCHEMA, source |-> x, doc |-> "permissive"] :
        x \in {"missing", "JSONDecodeError"}}
    \cup {[schema |-> u, source |-> "ok", doc |-> x] :
        u \in {DEFAULT_SCHEMA_URL, LOCAL_SCHEMA}, x \in SchemaDocs}

Start ==
    /\ pc = "parse_args"
    /\ sessions = <<>>
    /\ files = {}
    /\ log = <<>>
    /\ io = <<>>
    /\ steps = <<>>
    /\ exit_code = -1
    /\ raised = "none"
    /\ run = 1
    /\ tape = <<>>
    /\ first_files = {}

\* ---------------------------------------------------- the driver, whole --
Init ==
    /\ Start
    /\ \E n \in -1..MaxNum, dy \in -1..MaxDays,
          sd \in {<<2024, 1, 1>>, <<9999, 12, 31>>, <<2024, 13, 1>>},
          nr \in BOOLEAN, sk \in BOOLEAN, c \in SchemaCases, ok \in BOOLEAN :
         /\ args = [BaseArgs EXCEPT !.num = n, !.days = dy, !.start_date = sd,
                                    !.no_rating = nr, !.skip_validate = sk,
                                    !.schema = c.schema]
         /\ env = [disk_ok |-> ok, source |-> c.source, doc |-> c.doc]

Next ==
    \/ ParseStartDate
    \/ GenerateStep(FlowDraws)
    \/ WriteOutput
    \/ SkipValidate
    \/ ValidateOutput

Spec == Init /\ [][Next]_vars

\* ------------------------------------------------- the generator's draws --
InitGen ==
    /\ Start
    /\ env = BaseEnv
    /\ \E dy \in -1..MaxDays, sd \in StartDates, nr \in BOOLEAN :
         args = [BaseArgs EXCEPT !.days = dy, !.start_date = sd,
                                 !.no_rating = nr]

NextGen ==
    \/ ParseStartDate
    \/ GenerateStep(GenDraws(args.days))
    \/ WriteOutput
    \/ SkipValidate

SpecGen == InitGen /\ [][NextGen]_vars

\* ------------------------------------------------------ the output file --
InitWrite ==
    /\ Start
    /\ env = BaseEnv
    /\ \E n \in -1..MaxNum, nr \in BOOLEAN, jl \in BOOLEAN, pr \in BOOLEAN,
          ind \in {0, 2}, gz \in BOOLEAN, o \in OutPaths :
         args = [BaseArgs EXCEPT !.num = n, !.no_rating = nr, !.jsonl = jl,
                                 !.pretty = pr, !.indent = ind,
                                 !.compressed = gz, !.out = o]

NextWrite ==
    \/ ParseStartDate
    \/ GenerateStep(RatingDraws)
    \/ WriteOutput
    \/ SkipValidate

SpecWrite == InitWrite /\ [][NextWrite]_vars

\* -------------------------------------------------------------- two runs --
InitTwoRuns ==
    /\ Start
    /\ env = BaseEnv
    /\ \E n \in 0..MaxNum, sd \in {None, Some(42)}, jl \in BOOLEAN :
         args = [BaseArgs EXCEPT !.num = n, !.seed = sd, !.jsonl = jl,
                                 !.no_rating = TRUE]

NextTwoRuns ==
    \/ ParseStartDate
    \/ GenerateStep(RepeatDraws)
    \/ WriteOutput
    \/ SkipValidate
    \/ SecondRun

SpecTwoRuns == InitTwoRuns /\ [][NextTwoRuns]_vars


\* ------------------------------------------------------------- properties --
Texts == {log[k].text : k \in 1..Len(log)}
IoEvents == {io[k] : k \in 1..Len(io)}
Reached(step) == \E k \in 1..Len(steps) : steps[k] = step
Finished == pc = "exit"

\* C1: with a fixed --seed and the same arguments, the second of two
\* independent runs leaves exactly the files the first one left.
C1_SeededRunsAgree ==
    (run = 2 /\ Finished /\ args.seed # None) => files = first_files

\* C2: when the schema was loaded and validate returns a non-empty list, every
\* error of the list is logged, the process exits with status 1 through the
\* SystemExit raised in the try block, and neither the downgrade to a warning
\* nor "Done" happens.
C2_ViolationsExitOne ==
    (/\ Finished
     /\ Reached("validate")
     /\ fetch_schema(args.schema, env).raised = "none"
     /\ validate(sessions, env.doc) # <<>>)
    => /\ exit_code = 1
       /\ raised = "SystemExit"
       /\ \A k \in 1..Len(validate(sessions, env.doc)) :
             \E j \in 1..Len(log) :
                /\ log[j].level = "error"
                /\ log[j].detail = <<validate(sessions, env.doc)[k]>>
       /\ "Done" \notin Texts
       /\ "Could not validate" \notin Texts

C2_Witness ==
    /\ Finished
    /\ Reached("validate")
    /\ Len(validate(sessions, env.doc)) >= 2
    /\ exit_code = 1
    /\ "Schema validation failed" \in Texts

\* what makes the validator's setup fail: transport error, HTTP error status,
\* timeout, or a schema text that is not JSON
SetupFails ==
    \/ IsUrl(args.schema) /\ env.source \in RequestExceptions
    \/ ~IsUrl(args.schema) /\ env.source = "JSONDecodeError"

\* C3: when validation is not skipped and the validator's setup fails, main
\* logs a warning, checks nothing against a schema, exits with status 0, and
\* the written output file is still there.
C3_SetupFailureIsWarning ==
    (Finished /\ Reached("validate") /\ SetupFails)
    => /\ exit_code = 0
       /\ raised = "none"
       /\ \E j \in 1..Len(log) :
             log[j].level = "warning" /\ log[j].text = "Could not validate"
       /\ "validate" \notin IoEvents
       /\ "Schema validation passed" \notin Texts
       /\ written_file(args, sessions) \in files

C3_Witness ==
    /\ Finished
    /\ Reached("validate")
    /\ IsUrl(args.schema)
    /\ env.source = "Timeout"
    /\ exit_code = 0
    /\ Len(sessions) = 2
    /\ "Could not validate" \in Texts

\* C4: a --schema that is a local path which does not exist makes fetch_schema
\* raise FileNotFoundError before a schema file is opened or a record checked,
\* and the run shows it: no success indicator in the log, a warning naming the
\* error instead.
C4_MissingSchemaIsReported ==
    (/\ Finished
     /\ Reached("validate")
     /\ ~IsUrl(args.schema)
     /\ env.source = "missing")
    => /\ "open_schema" \notin IoEvents
       /\ "validate" \notin IoEvents
       /\ "Schema validation passed" \notin Texts
       /\ \E j \in 1..Len(log) :
             /\ log[j].level = "warning"
             /\ log[j].detail = <<"FileNotFoundError">>

C4_Witness ==
    /\ Finished
    /\ Reached("validate")
    /\ ~IsUrl(args.schema)
    /\ env.source = "missing"
    /\ Len(sessions) >= 1
    /\ "Could not validate" \in Texts

\* the output has been written
Written == pc \in {"validate", "exit"} /\ Reached("write") /\ files # {}

\* C5: with --jsonl and n >= 0 requested sessions (n = 0 included), the text
\* of the file is exactly n lines, each the compact JSON object of one session
\* in generation order followed by a newline.
C5_JsonlHasNumLines ==
    (Written /\ args.jsonl /\ args.num >= 0)
    => \A f \in files :
          /\ Len(f.text) = 2 * args.num
          /\ \A k \in 1..args.num :
                /\ f.text[2 * k - 1] = json_dumps(sessions[k], <<"compact">>)
                /\ f.text[2 * k] = NL

\* the sampling window of the run, as timestamps; an end past datetime.max
\* is later than every timestamp
WindowStart == ReplaceOffset(isoformat(strptime(args.start_date)))
WindowLast == AddOffset(strptime(args.start_date), args.days, 0)
WindowEnd == ReplaceOffset(isoformat(WindowLast))
InWindow(ts) ==
    /\ StrLeq(WindowStart, ts)
    /\ DatetimeInRange(WindowLast) => StrLeq(ts, WindowEnd)

\* C6: start_time, end_time and every transcript timestamp of every session
\* lie between the start date and the start date plus --days days.
C6_TimestampsInWindow ==
    \A k \in 1..Len(sessions) :
       /\ InWindow(sessions[k].start_time)
       /\ InWindow(sessions[k].end_time)
       /\ \A j \in 1..Len(sessions[k].transcript) :
             InWindow(sessions[k].transcript[j].timestamp)

\* the two timestamps session k drew, in the order drawn
FirstDraw(k) ==
    generate_timestamp(strptime(args.start_date), args.days, tape[k].start).value
SecondDraw(k) ==
    generate_timestamp(strptime(args.start_date), args.days, tape[k].end).value

C8_GzSuffixAppended ==
    Written
    => \A f \in files :
          /\ f.path = IF args.compressed /\ ~EndsWith(args.out, GZ)
                      THEN args.out \o GZ ELSE args.out
          /\ f.encoding = IF args.compressed THEN "gzip" ELSE "plain"
          /\ f.text = output_content([args EXCEPT !.compressed = FALSE],
                                     sessions)

C8_Witness ==
    /\ Written
    /\ args.compressed
    /\ args.out = P_data_json
    /\ \E f \in files : f.path = P_data_json \o GZ /\ f.encoding = "gzip"

\* the records of a file's text
RECURSIVE RecordsOf(_)
RecordsOf(text) ==
    IF text = <<>> THEN {}
    ELSE (IF Head(text).kind = "nl" THEN {}
          ELSE IF args.jsonl THEN {Head(text).value}
          ELSE {Head(text).value[k] : k \in 1..Len(Head(text).value)})
         \cup RecordsOf(Tail(text))

OutputRecords ==
    {sessions[k] : k \in 1..Len(sessions)}
    \cup UNION {RecordsOf(f.text) : f \in files}

\* C9: with --no-rating no record, generated or written, has a user_rating
\* key; and a user_rating that is there is one of 1, 2, 3, 4, 4.5, 5 (tenths).
C9_NoRatingOmitsField ==
    \A r \in OutputRecords :
       /\ args.no_rating => "user_rating" \notin DOMAIN r
       /\ "user_rating" \in DOMAIN r
             => r["user_rating"] \in {10, 20, 30, 40, 45, 50}

C9_Witness ==
    /\ Written
    /\ args.no_rating
    /\ Len(sessions) = 2
    /\ \E k \in 1..Len(tape) : tape[k].p < 80
    /\ \A r \in OutputRecords : "user_rating" \notin DOMAIN r

\* C10: no run ends inside the generate step.
C10_GenerateCannotFail ==
    Finished => steps[Len(steps)] # "generate"


\* the two orders of steps a complete run can take
StepOrders ==
    {<<"parse_args", "generate", "write", "validate", "exit">>,
     <<"parse_args", "generate", "write", "skip", "exit">>}

IsPrefix(a, b) == Len(a) <= Len(b) /\ SubSeq(b, 1, Len(a)) = a

\* what fetch_schema does to reach the schema
FetchEvents == {"http_get", "exists", "open_schema"}

\* C11: the steps a run has taken are always an initial part of parse-args,
\* generate, write, validate or skip, exit; a bad --start-date ends the run
\* with status 1, no session and no file; a write failure ends it with status
\* 1 and no schema fetched; a schema is fetched only after the output file was
\* written (so a run ended by schema violations has left the whole file), and
\* never with --skip-validate, whose skip step ends the run with status 0.
C11_LinearOrder ==
    /\ \E o \in StepOrders : IsPrefix(steps, o)
    /\ (Finished /\ ~strptime_ok(args.start_date))
          => /\ exit_code = 1
             /\ steps = <<"parse_args">>
             /\ sessions = <<>>
             /\ files = {}
             /\ io = <<>>
    /\ (Reached("write") /\ ~env.disk_ok)
          => /\ Finished
             /\ exit_code = 1
             /\ raised = "OSError"
             /\ files = {}
             /\ IoEvents \cap FetchEvents = {}
    /\ \A k \in 1..Len(io) :
          io[k] \in FetchEvents
             => /\ \E j \in 1..(k - 1) : io[j] = "open_output"
                /\ written_file(args, sessions) \in files
                /\ ~args.skip_validate
    /\ (Finished /\ Reached("validate") /\ raised = "SystemExit")
          => /\ exit_code = 1
             /\ files = {written_file(args, sessions)}
    /\ (Finished /\ Reached("skip"))
          => /\ args.skip_validate
             /\ exit_code = 0
             /\ IoEvents \cap FetchEvents = {}

C11_Witness ==
    /\ Finished
    /\ steps = <<"parse_args", "generate", "write", "validate", "exit">>
    /\ exit_code = 1
    /\ raised = "SystemExit"
    /\ Len(sessions) = 2
    /\ \E k \in 1..Len(io) : io[k] \in FetchEvents
    /\ files = {written_file(args, sessions)}

====
